---- MODULE Spec2Model ----
(***************************************************************************)
(* A model of src/rule.rs: the rule algebra (Rule, RuleWithNamedFields),   *)
(* its combinators, the Folder framework with the whitespace inserter, the *)
(* refutability query and the cached nullability analysis can_be_empty     *)
(* with the validator check_non_empty_opt.                                 *)
(*                                                                         *)
(* Two state machines share the module.  SpecBuild drives the combinator   *)
(* layer: a stack of RuleWithNamedFields values on which the public        *)
(* operations are applied.  SpecNull runs can_be_empty and                 *)
(* check_non_empty_opt step by step (one recursion frame per stack entry)  *)
(* over a grammar drawn from a bounded set.                                *)
(***************************************************************************)
EXTENDS Integers, Sequences, FiniteSets, TLC

VARIABLES
    stk,      \* SpecBuild: the values built so far (a stack of RuleWithNamedFields)
    last,     \* SpecBuild: the last operation applied, its operands and its result
    status,   \* SpecBuild: "ok", or "panicked" once an operation has failed
    folded,   \* SpecBuild: fold or insert_whitespace has been applied in this run
    grammar,  \* SpecNull: rule name -> the rule tree of its definition
    cache,    \* SpecNull: the HashMap<Rc<Rule>, MaybeKnown<bool>> of can_be_empty
    frames,   \* SpecNull: the call stack, innermost frame last
    query,    \* SpecNull: the top-level call in progress or last finished
    result,   \* SpecNull: what the last finished top-level can_be_empty returned
    nq,       \* SpecNull: the number of top-level calls started
    failed    \* SpecNull: an assert_eq! of check_non_empty_opt has failed

vars == <<stk, last, status, folded, grammar, cache, frames, query, result, nq, failed>>
buildVars == <<stk, last, status, folded>>
nullVars == <<grammar, cache, frames, query, result, nq, failed>>

(***************************************************************************)
(* Bounds of the model.                                                    *)
(***************************************************************************)
MaxNodes == 5        \* rule-tree nodes held on the builder's stack
MaxStack == 2        \* values on the builder's stack
MaxRuleNodes == 3    \* nodes of a grammar rule in SpecNull
MaxQueries == 2      \* top-level calls sharing one cache in SpecNull
MaxHistory == 3      \* top-level calls sharing one cache in SpecHist

(***************************************************************************)
(* Rule<Pat>: one record shape for all variants.  kids holds the sub-rules *)
(* (Concat: both sides; Or: the alternatives; Opt: the inner rule; the     *)
(* repetitions: the element, then the separator when there is one), kind   *)
(* the separator kind ("None" without a separator).                        *)
(***************************************************************************)
Node(t, a, ks, k) == [tag |-> t, arg |-> a, kids |-> ks, kind |-> k]

None == <<>>
Some(x) == <<x>>
IsSome(o) == Len(o) = 1

Empty == Node("Empty", "", <<>>, "None")
Eat(pat) == Node("Eat", pat, <<>>, "None")
Call(name) == Node("Call", name, <<>>, "None")
Concat(left, right) == Node("Concat", "", <<left, right>>, "None")
Or(rules) == Node("Or", "", rules, "None")
Opt(rule) == Node("Opt", "", <<rule>>, "None")
Repeat(t, elem, sep) ==
    IF IsSome(sep) THEN Node(t, "", <<elem, sep[1][1]>>, sep[1][2])
    ELSE Node(t, "", <<elem>>, "None")
RepeatMany(elem, sep) == Repeat("RepeatMany", elem, sep)
RepeatMore(elem, sep) == Repeat("RepeatMore", elem, sep)

SepKind == {"Simple", "Trailing"}

\* The Option<(Rc<Rule>, SepKind)> of a repetition node.
SepOf(r) == IF Len(r.kids) = 2 THEN Some(<<r.kids[2], r.kind>>) ELSE None

IsLeaf(r) == r.tag \in {"Empty", "Eat", "Call"}
IsRepeat(r) == r.tag \in {"RepeatMany", "RepeatMore"}

RECURSIVE NodeCount(_)
NodeCount(r) ==
    LET RECURSIVE Sum(_, _)
        Sum(ks, i) == IF i > Len(ks) THEN 0 ELSE NodeCount(ks[i]) + Sum(ks, i + 1)
    IN  1 + Sum(r.kids, 1)

(***************************************************************************)
(* RuleWithNamedFields: a rule and fields, a map from names to sets of     *)
(* paths (a function whose domain is the set of names present).  Panic     *)
(* stands for an operation that did not return: a failed assert!, an       *)
(* unimplemented!() or an out-of-range index.                              *)
(***************************************************************************)
NoFields == [n \in {} |-> {}]
RWNF(r, f) == [rule |-> r, fields |-> f]
Panic == RWNF(Node("Panic", "", <<>>, "None"), NoFields)
IsPanic(v) == v.rule.tag = "Panic"

empty == RWNF(Empty, NoFields)
eat(pat) == RWNF(Eat(pat), NoFields)
call(name) == RWNF(Call(name), NoFields)

\* IndexMap::insert: the value of an existing key is replaced.
MapInsert(m, k, val) == [n \in (DOMAIN m) \cup {k} |-> IF n = k THEN val ELSE m[n]]

\* path.insert(0, i) on every path of every field.
PrefixPaths(paths, i) == {<<i>> \o p : p \in paths}
PrefixFields(fields, i) == [n \in DOMAIN fields |-> PrefixPaths(fields[n], i)]

field(self, name) ==
    IF IsPanic(self) THEN Panic
    ELSE IF IsRepeat(self.rule) /\ self.rule.kids[1].tag \notin {"Eat", "Call"}
    THEN Panic   \* unimplemented!()
    ELSE LET path == IF self.rule.tag = "Opt" THEN <<0>> ELSE <<>>
         IN  RWNF(self.rule, MapInsert(self.fields, name, {path}))

opt(self) ==
    IF IsPanic(self) THEN Panic
    ELSE RWNF(Opt(self.rule), PrefixFields(self.fields, 0))

\* sep is None or Some(<<a RuleWithNamedFields, a SepKind>>).
SepPanics(sep) == IsSome(sep) /\ (IsPanic(sep[1][1]) \/ DOMAIN sep[1][1].fields # {})
SepRule(sep) == IF IsSome(sep) THEN Some(<<sep[1][1].rule, sep[1][2]>>) ELSE None

repeat_many(self, sep) ==
    IF IsPanic(self) \/ SepPanics(sep) THEN Panic
    ELSE RWNF(RepeatMany(self.rule, SepRule(sep)), PrefixFields(self.fields, 0))

repeat_more(self, sep) ==
    IF IsPanic(self) \/ SepPanics(sep) THEN Panic
    ELSE RWNF(RepeatMore(self.rule, SepRule(sep)), PrefixFields(self.fields, 0))

\* add without the shortcut for a field-less Empty on the right.
add_NoRightIdentity(self, other) ==
    IF IsPanic(self) \/ IsPanic(other) THEN Panic
    ELSE IF self.rule.tag = "Empty" /\ DOMAIN self.fields = {} THEN other
    ELSE IF (DOMAIN self.fields) \cap (DOMAIN other.fields) # {} THEN Panic
    ELSE RWNF(Concat(self.rule, other.rule),
              [n \in (DOMAIN self.fields) \cup (DOMAIN other.fields) |->
                  IF n \in DOMAIN self.fields
                  THEN PrefixPaths(self.fields[n], 0)
                  ELSE PrefixPaths(other.fields[n], 1)])

add(self, other) ==
    IF IsPanic(self) \/ IsPanic(other) THEN Panic
    ELSE IF self.rule.tag = "Empty" /\ DOMAIN self.fields = {} THEN other
    ELSE IF other.rule.tag = "Empty" /\ DOMAIN other.fields = {} THEN self
    ELSE IF (DOMAIN self.fields) \cap (DOMAIN other.fields) # {}
    THEN Panic   \* assert!(!self.fields.contains_key(&name), "duplicate field")
    ELSE RWNF(Concat(self.rule, other.rule),
              [n \in (DOMAIN self.fields) \cup (DOMAIN other.fields) |->
                  IF n \in DOMAIN self.fields
                  THEN PrefixPaths(self.fields[n], 0)
                  ELSE PrefixPaths(other.fields[n], 1)])

\* bitor that prefixes the new alternative's paths with its index among the
\* new rules, forgetting old_rules.len().
bitor_NoOffset(self, other) ==
    IF IsPanic(self) \/ IsPanic(other) THEN Panic
    ELSE LET isOr == self.rule.tag = "Or"
             old_rules == IF isOr THEN self.rule.kids ELSE <<>>
             fields0 == IF isOr THEN self.fields ELSE NoFields
             news == IF isOr THEN <<other>> ELSE <<self, other>>
             names == (DOMAIN fields0)
                      \cup UNION {DOMAIN news[i].fields : i \in 1..Len(news)}
             paths(n) ==
                 (IF n \in DOMAIN fields0 THEN fields0[n] ELSE {})
                 \cup UNION {IF n \in DOMAIN news[i].fields
                             THEN PrefixPaths(news[i].fields[n], i - 1)
                             ELSE {} : i \in 1..Len(news)}
         IN  RWNF(Or(old_rules \o [i \in 1..Len(news) |-> news[i].rule]),
                  [n \in names |-> paths(n)])

\* bitor that never absorbs an Or on the left: always a two-element Or.
bitor_NoFlatten(self, other) ==
    IF IsPanic(self) \/ IsPanic(other) THEN Panic
    ELSE RWNF(Or(<<self.rule, other.rule>>),
              [n \in (DOMAIN self.fields) \cup (DOMAIN other.fields) |->
                  (IF n \in DOMAIN self.fields
                   THEN PrefixPaths(self.fields[n], 0) ELSE {})
                  \cup (IF n \in DOMAIN other.fields
                        THEN PrefixPaths(other.fields[n], 1) ELSE {})])

bitor(self, other) ==
    IF IsPanic(self) \/ IsPanic(other) THEN Panic
    ELSE LET isOr == self.rule.tag = "Or"
             old_rules == IF isOr THEN self.rule.kids ELSE <<>>
             fields0 == IF isOr THEN self.fields ELSE NoFields
             news == IF isOr THEN <<other>> ELSE <<self, other>>
             names == (DOMAIN fields0)
                      \cup UNION {DOMAIN news[i].fields : i \in 1..Len(news)}
             \* fields.entry(name).or_insert_with(IndexSet::new).extend(...)
             paths(n) ==
                 (IF n \in DOMAIN fields0 THEN fields0[n] ELSE {})
                 \cup UNION {IF n \in DOMAIN news[i].fields
                             THEN PrefixPaths(news[i].fields[n], Len(old_rules) + i - 1)
                             ELSE {} : i \in 1..Len(news)}
         IN  RWNF(Or(old_rules \o [i \in 1..Len(news) |-> news[i].rule]),
                  [n \in names |-> paths(n)])

(***************************************************************************)
(* Rule::field_pathset_is_refutable / field_is_refutable.  The answer is   *)
(* "true" or "false"; "panic" is an index out of range (path[0] of an      *)
(* empty path, get_index(0).unwrap() of an empty set).                     *)
(***************************************************************************)
RECURSIVE field_is_refutable(_, _)
field_is_refutable(self, path) ==
    CASE self.tag \in {"Empty", "Eat", "Call", "RepeatMany", "RepeatMore"} -> "false"
      [] self.tag = "Concat" ->
            IF path = <<>> \/ path[1] \notin {0, 1} THEN "panic"
            ELSE field_is_refutable(self.kids[path[1] + 1], Tail(path))
      [] self.tag \in {"Or", "Opt"} -> "true"

field_pathset_is_refutable(self, paths) ==
    IF Cardinality(paths) > 1 THEN "true"
    ELSE IF paths = {} THEN "panic"
    ELSE field_is_refutable(self, CHOOSE p \in paths : TRUE)

(***************************************************************************)
(* The Folder trait and RuleWithNamedFields::fold.  A folder is a record:  *)
(* kind "default" overrides no hook, kind "ws" is the WhitespaceInserter   *)
(* of insert_whitespace, with its whitespace rule.                         *)
(***************************************************************************)
DefaultFolder == [kind |-> "default", whitespace |-> empty]
WhitespaceInserter(ws) == [kind |-> "ws", whitespace |-> ws]

\* filter_fields that keeps the leading index of the paths it selects.
filter_fields_NoStrip(self, fld) ==
    LET kept(paths) ==
            IF IsSome(fld)
            THEN {q \in paths : q # <<>> /\ q[1] = fld[1]}
            ELSE {p \in paths : p = <<>>}
        names == {n \in DOMAIN self.fields : kept(self.fields[n]) # {}}
    IN  [n \in names |-> kept(self.fields[n])]

\* filter_fields(field): the paths whose first index is `field` (None: the
\* empty paths), with that index removed; names left without a path are dropped.
filter_fields(self, fld) ==
    LET kept(paths) ==
            IF IsSome(fld)
            THEN {Tail(p) : p \in {q \in paths : q # <<>> /\ q[1] = fld[1]}}
            ELSE {p \in paths : p = <<>>}
        names == {n \in DOMAIN self.fields : kept(self.fields[n]) # {}}
    IN  [n \in names |-> kept(self.fields[n])]

\* The closure field_rule of fold: child i with the fields that lead into it.
field_rule(self, rule, i) == RWNF(rule, filter_fields(self, Some(i)))

\* IndexMap::extend: every entry of `more` is inserted, replacing the value
\* of a name already present.
MapExtend(m, more) ==
    [n \in (DOMAIN m) \cup (DOMAIN more) |-> IF n \in DOMAIN more THEN more[n] ELSE m[n]]

RECURSIVE fold(_, _)

fold_leaf(folder, rule) == rule

fold_concat(folder, left, right) == add(fold(left, folder), fold(right, folder))

fold_or(folder, rules) ==
    LET RECURSIVE Rest(_, _)
        Rest(acc, i) ==
            IF i > Len(rules) THEN acc
            ELSE Rest(bitor(acc, fold(rules[i], folder)), i + 1)
    IN  IF rules = <<>> THEN Panic   \* rules.next().unwrap()
        ELSE Rest(fold(rules[1], folder), 2)

fold_opt(folder, rule) == opt(fold(rule, folder))

\* sep.map(|(sep, kind)| (sep.fold(self), kind))
FoldSep(folder, sep) ==
    IF IsSome(sep) THEN Some(<<fold(sep[1][1], folder), sep[1][2]>>) ELSE None

fold_repeat_many(folder, elem, sep) ==
    repeat_many(fold(elem, folder), FoldSep(folder, sep))

fold_repeat_more(folder, elem, sep) ==
    repeat_more(fold(elem, folder), FoldSep(folder, sep))

\* The hooks WhitespaceInserter overrides.
ws_fold_concat(folder, left, right) ==
    add(add(fold(left, folder), folder.whitespace), fold(right, folder))

\* whitespace + sep + whitespace
WsSep(folder, sep) == add(add(folder.whitespace, sep), folder.whitespace)

ws_fold_repeat_many(folder, elem, sep) ==
    IF ~IsSome(sep)
    THEN repeat_more(fold(elem, folder), Some(<<folder.whitespace, "Simple">>))
    ELSE IF sep[1][2] = "Simple"
    THEN repeat_more(fold(elem, folder), Some(<<WsSep(folder, sep[1][1]), "Simple">>))
    ELSE repeat_more(fold(elem, folder), Some(<<WsSep(folder, sep[1][1]), "Trailing">>))

ws_fold_repeat_more(folder, elem, sep) ==
    IF ~IsSome(sep)
    THEN repeat_more(fold(elem, folder), Some(<<folder.whitespace, "Simple">>))
    ELSE IF sep[1][2] = "Simple"
    THEN repeat_more(fold(elem, folder), Some(<<WsSep(folder, sep[1][1]), "Simple">>))
    ELSE add(repeat_more(fold(elem, folder), Some(<<WsSep(folder, sep[1][1]), "Simple">>)),
             opt(add(folder.whitespace, sep[1][1])))

fold(self, folder) ==
    IF IsPanic(self) THEN Panic
    ELSE IF IsLeaf(self.rule) THEN fold_leaf(folder, self)
    ELSE LET r == self.rule
             ws == folder.kind = "ws"
             child(i) == field_rule(self, r.kids[i + 1], i)
             sep == IF Len(r.kids) = 2 THEN Some(<<child(1), r.kind>>) ELSE None
             rule ==
                 CASE r.tag = "Concat" ->
                        IF ws THEN ws_fold_concat(folder, child(0), child(1))
                        ELSE fold_concat(folder, child(0), child(1))
                   [] r.tag = "Or" ->
                        fold_or(folder, [i \in 1..Len(r.kids) |-> child(i - 1)])
                   [] r.tag = "Opt" -> fold_opt(folder, child(0))
                   [] r.tag = "RepeatMany" ->
                        IF ws THEN ws_fold_repeat_many(folder, child(0), sep)
                        ELSE fold_repeat_many(folder, child(0), sep)
                   [] r.tag = "RepeatMore" ->
                        IF ws THEN ws_fold_repeat_more(folder, child(0), sep)
                        ELSE fold_repeat_more(folder, child(0), sep)
         IN  IF IsPanic(rule) THEN Panic
             ELSE RWNF(rule.rule, MapExtend(rule.fields, filter_fields(self, None)))

insert_whitespace(self, whitespace) ==
    IF IsPanic(self) \/ IsPanic(whitespace) \/ DOMAIN whitespace.fields # {}
    THEN Panic   \* assert!(whitespace.fields.is_empty())
    ELSE fold(self, WhitespaceInserter(whitespace))

(***************************************************************************)
(* MaybeKnown<bool> and its BitOr / BitAnd.                                *)
(***************************************************************************)
Known(b) == IF b THEN "Known_true" ELSE "Known_false"
Unknown == "Unknown"

mk_bitor(self, rhs) ==
    IF self = Known(TRUE) \/ rhs = Known(TRUE) THEN Known(TRUE)
    ELSE IF self = Known(FALSE) THEN rhs
    ELSE IF rhs = Known(FALSE) THEN self
    ELSE Unknown

\* BitAnd in which Known(false) does not absorb Unknown.
mk_bitand_Strict(self, rhs) ==
    IF self = Unknown \/ rhs = Unknown THEN Unknown
    ELSE IF self = Known(FALSE) \/ rhs = Known(FALSE) THEN Known(FALSE)
    ELSE Known(TRUE)

mk_bitand(self, rhs) ==
    IF self = Known(FALSE) \/ rhs = Known(FALSE) THEN Known(FALSE)
    ELSE IF self = Known(TRUE) THEN rhs
    ELSE IF rhs = Known(TRUE) THEN self
    ELSE Unknown

\* MatchesEmpty::matches_empty, the capability of the pattern type: the
\* patterns of the model are named after their answer ("e" matches the empty
\* input, "u" does not know, every other pattern does not match it).
matches_empty(pat) ==
    CASE pat = "e" -> Known(TRUE)
      [] pat = "u" -> Unknown
      [] OTHER -> Known(FALSE)

(***************************************************************************)
(* SpecBuild: the combinator layer as a state machine.  The program holds  *)
(* a stack of values; every public operation takes its operands from the   *)
(* top of the stack and leaves its result there.  An operation that panics *)
(* ends the run (status "panicked").  last records the operation, for the  *)
(* properties that speak about one application.                            *)
(***************************************************************************)
Pats == {"p", "q"}
Names == {"x"}
Leaves == {empty, call("R")} \cup {eat(pat) : pat \in Pats}
Whitespaces == {empty, eat("w"), field(eat("w"), "x")}

Op(o, as, n, r, a, d) ==
    [op |-> o, args |-> as, name |-> n, out |-> r, ans |-> a, derived |-> d]

RECURSIVE StackNodes(_)
StackNodes(s) == IF s = <<>> THEN 0 ELSE NodeCount(Head(s).rule) + StackNodes(Tail(s))

Top == stk[Len(stk)]
Below == stk[Len(stk) - 1]

\* The run after a panic: the values are gone, only the failed call is known.
Panicked(o, n) ==
    /\ status' = "panicked"
    /\ stk' = <<>>
    /\ last' = Op(o, <<>>, n, Panic, "panic", folded)
    /\ UNCHANGED folded

\* The step of operation `o`, which consumed the top k values (its operands
\* `as`) and returned r; d tells a fold from a combinator.
Apply(o, k, n, as, r, d) ==
    LET rest == SubSeq(stk, 1, Len(stk) - k)
    IN  /\ status = "ok"
        /\ IF IsPanic(r)
           THEN Panicked(o, n)
           ELSE /\ StackNodes(rest) + NodeCount(r.rule) <= MaxNodes
                /\ stk' = Append(rest, r)
                /\ last' = Op(o, as, n, r, "", folded)
                /\ folded' = (folded \/ d)
                /\ UNCHANGED status
        /\ UNCHANGED nullVars

PushLeaf ==
    /\ Len(stk) < MaxStack
    /\ \E v \in Leaves : Apply("leaf", 0, "", <<>>, v, FALSE)

DoField ==
    /\ stk # <<>>
    /\ \E n \in Names : Apply("field", 1, n, <<Top>>, field(Top, n), FALSE)

DoOpt ==
    /\ stk # <<>>
    /\ Apply("opt", 1, "", <<Top>>, opt(Top), FALSE)

\* The separators offered to the repetitions: none, or a rule and a kind.
SepInputs ==
    {None} \cup {Some(<<s, k>>) : s \in {eat(","), field(eat(","), "x")}, k \in SepKind}

DoRepeatMany ==
    /\ stk # <<>>
    /\ \E sep \in SepInputs :
          Apply("repeat_many", 1, IF IsSome(sep) THEN sep[1][2] ELSE "",
                <<Top>>, repeat_many(Top, sep), FALSE)

DoRepeatMore ==
    /\ stk # <<>>
    /\ \E sep \in SepInputs :
          Apply("repeat_more", 1, IF IsSome(sep) THEN sep[1][2] ELSE "",
                <<Top>>, repeat_more(Top, sep), FALSE)

\* The two values on top, combined in either order.
Operands == {<<Below, Top>>, <<Top, Below>>}

DoAdd ==
    /\ Len(stk) >= 2
    /\ \E o \in Operands : Apply("add", 2, "", o, add(o[1], o[2]), FALSE)

DoBitOr ==
    /\ Len(stk) >= 2
    /\ \E o \in Operands : Apply("bitor", 2, "", o, bitor(o[1], o[2]), FALSE)

DoFold ==
    /\ stk # <<>>
    /\ Apply("fold", 1, "", <<Top>>, fold(Top, DefaultFolder), TRUE)

DoInsertWhitespace ==
    /\ stk # <<>>
    /\ \E w \in Whitespaces :
          Apply("insert_whitespace", 1, w.rule.arg, <<Top, w>>,
                insert_whitespace(Top, w), TRUE)

\* rule.field_pathset_is_refutable(&fields[name]) on the value on top.
DoRefutable ==
    /\ stk # <<>>
    /\ status = "ok"
    /\ \E n \in DOMAIN Top.fields :
          LET a == field_pathset_is_refutable(Top.rule, Top.fields[n])
          IN  IF a = "panic"
              THEN Panicked("refutable", n)
              ELSE /\ last' = Op("refutable", <<Top>>, n, Top, a, folded)
                   /\ UNCHANGED <<stk, status, folded>>
    /\ UNCHANGED nullVars

NullIdle ==
    /\ grammar = [n \in {} |-> Empty]
    /\ cache = [n \in {} |-> Unknown]
    /\ frames = <<>>
    /\ query = [fn |-> "none", name |-> "", ws |-> FALSE, node |-> Empty]
    /\ result = "None"
    /\ nq = 0
    /\ failed = FALSE

BuildIdle ==
    /\ stk = <<>>
    /\ last = Op("init", <<>>, "", empty, "", FALSE)
    /\ status = "ok"
    /\ folded = FALSE

InitBuild ==
    /\ BuildIdle
    /\ NullIdle

NextBuild ==
    \/ PushLeaf
    \/ DoField
    \/ DoOpt
    \/ DoRepeatMany
    \/ DoRepeatMore
    \/ DoAdd
    \/ DoBitOr
    \/ DoFold
    \/ DoInsertWhitespace
    \/ DoRefutable

SpecBuild == InitBuild /\ [][NextBuild]_vars

(***************************************************************************)
(* can_be_empty and check_non_empty_opt, one recursion frame per entry of  *)
(* frames.  A frame is [fn, node, i, vals]: the function running, the rule *)
(* it runs on, how many of its calls have returned and what the calls to   *)
(* can_be_empty returned.  fn "top" is the caller of the top-level call.   *)
(***************************************************************************)
Frame(f, n) == [fn |-> f, node |-> n, i |-> 0, vals |-> <<>>]
CallOf(f, n, a) == [fn |-> f, node |-> n, assert |-> a]

\* Whether grammar.rules[name] of a Call is there (indexing panics if not).
Defined(rule) == rule.tag # "Call" \/ rule.arg \in DOMAIN grammar

\* The calls a frame makes, in order.
Calls(f) ==
    LET r == f.node
    IN  CASE f.fn = "top" -> <<CallOf(query.fn, r, FALSE)>>
          [] f.fn = "cbe" ->
                CASE r.tag = "Call" -> <<CallOf("cbe", grammar[r.arg], FALSE)>>
                  [] r.tag \in {"Concat", "Or"} ->
                        [k \in 1..Len(r.kids) |-> CallOf("cbe", r.kids[k], FALSE)]
                  [] r.tag = "RepeatMore" -> <<CallOf("cbe", r.kids[1], FALSE)>>
                  [] OTHER -> <<>>
          [] f.fn = "chk" ->
                CASE r.tag \in {"Concat", "Or"} ->
                        [k \in 1..Len(r.kids) |-> CallOf("chk", r.kids[k], FALSE)]
                  [] r.tag = "Opt" ->
                        <<CallOf("cbe", r.kids[1], TRUE), CallOf("chk", r.kids[1], FALSE)>>
                  [] r.tag \in {"RepeatMany", "RepeatMore"} ->
                        <<CallOf("cbe", r.kids[1], TRUE)>>
                        \o [k \in 1..Len(r.kids) |-> CallOf("chk", r.kids[k], FALSE)]
                  [] OTHER -> <<>>

\* can_be_empty_uncached with Opt missing from the arm that answers Known(true).
can_be_empty_uncached_OptNotEmpty(rule, vals) ==
    LET RECURSIVE OrFold(_, _)
        OrFold(prev, k) ==
            IF k > Len(vals) THEN prev ELSE OrFold(mk_bitor(prev, vals[k]), k + 1)
    IN  CASE rule.tag \in {"Empty", "RepeatMany"} -> Known(TRUE)
          [] rule.tag = "Opt" -> Known(FALSE)
          [] rule.tag = "Eat" -> matches_empty(rule.arg)
          [] rule.tag = "Call" -> vals[1]
          [] rule.tag = "Concat" -> mk_bitand(vals[1], vals[2])
          [] rule.tag = "Or" -> OrFold(Known(FALSE), 1)
          [] rule.tag = "RepeatMore" -> vals[1]

\* Rule::can_be_empty_uncached, given what its recursive calls returned.
can_be_empty_uncached(rule, vals) ==
    LET RECURSIVE OrFold(_, _)
        OrFold(prev, k) ==
            IF k > Len(vals) THEN prev ELSE OrFold(mk_bitor(prev, vals[k]), k + 1)
    IN  CASE rule.tag \in {"Empty", "Opt", "RepeatMany"} -> Known(TRUE)
          [] rule.tag = "Eat" -> matches_empty(rule.arg)
          [] rule.tag = "Call" -> vals[1]
          [] rule.tag = "Concat" -> mk_bitand(vals[1], vals[2])
          [] rule.tag = "Or" -> OrFold(Known(FALSE), 1)
          [] rule.tag = "RepeatMore" -> vals[1]

\* HashMap insert / remove on the cache.
CachePut(c, k, v) == [n \in (DOMAIN c) \cup {k} |-> IF n = k THEN v ELSE c[n]]
CacheRemove(c, k) == [n \in (DOMAIN c) \ {k} |-> c[n]]

\* The end of can_be_empty storing Known(false) where the result is Unknown.
CacheFinish_UnknownAsFalse(c, node, r) ==
    CachePut(c, node, IF r = Unknown THEN Known(FALSE) ELSE r)

\* The end of can_be_empty caching every result, Unknown included.
CacheFinish_KeepUnknown(c, node, r) == CachePut(c, node, r)

\* The end of can_be_empty: a Known result overwrites the entry, an Unknown
\* one removes it.
CacheFinish(c, node, r) ==
    IF r = Unknown THEN CacheRemove(c, node) ELSE CachePut(c, node, r)

\* RcRuleMethods::can_be_empty as a function of the node and the cache it is
\* given: the value it returns and the cache it leaves.  An occupied entry is
\* returned as it is; a vacant one is set to Unknown, the calls of
\* can_be_empty_uncached are made in order on the cache as it evolves, and
\* the result is stored or the entry removed.  Every Call must be defined.
RECURSIVE can_be_empty(_, _)
can_be_empty(node, c) ==
    IF node \in DOMAIN c THEN [val |-> c[node], cache |-> c]
    ELSE LET calls == Calls(Frame("cbe", node))
             RECURSIVE Made(_)
             Made(k) ==
                 IF k = 0 THEN [vals |-> <<>>, cache |-> CachePut(c, node, Unknown)]
                 ELSE LET m == Made(k - 1)
                          r == can_be_empty(calls[k].node, m.cache)
                      IN  [vals |-> Append(m.vals, r.val), cache |-> r.cache]
             done == Made(Len(calls))
             r == can_be_empty_uncached(node, done.vals)
         IN  [val |-> r, cache |-> CacheFinish(done.cache, node, r)]

Running == frames # <<>> /\ ~failed
TopFrame == frames[Len(frames)]
Pending == Calls(TopFrame)[TopFrame.i + 1]

\* The frames after the innermost one has received `v` from its pending call
\* (vs is <<v>> for can_be_empty, <<>> for check_non_empty_opt).
Deliver(fs, vs) ==
    [fs EXCEPT ![Len(fs)] = [@ EXCEPT !.i = @ + 1, !.vals = @ \o vs]]

\* Entry::Occupied of can_be_empty: the cached value is returned at once; the
\* assert_eq! of check_non_empty_opt on it may fail.
CallCached ==
    /\ Running
    /\ TopFrame.i < Len(Calls(TopFrame))
    /\ Pending.fn = "cbe"
    /\ Pending.node \in DOMAIN cache
    /\ IF Pending.assert /\ cache[Pending.node] # Known(FALSE)
       THEN failed' = TRUE /\ UNCHANGED frames
       ELSE frames' = Deliver(frames, <<cache[Pending.node]>>) /\ UNCHANGED failed
    /\ UNCHANGED <<grammar, cache, query, result, nq>>
    /\ UNCHANGED buildVars

\* Entry::Vacant of can_be_empty: Unknown is inserted and the computation of
\* the node starts.
CallVacant ==
    /\ Running
    /\ TopFrame.i < Len(Calls(TopFrame))
    /\ Pending.fn = "cbe"
    /\ Pending.node \notin DOMAIN cache
    /\ cache' = CachePut(cache, Pending.node, Unknown)
    /\ IF Defined(Pending.node)
       THEN frames' = Append(frames, Frame("cbe", Pending.node)) /\ UNCHANGED failed
       ELSE failed' = TRUE /\ UNCHANGED frames
    /\ UNCHANGED <<grammar, query, result, nq>>
    /\ UNCHANGED buildVars

\* A recursive call of check_non_empty_opt.
CallCheck ==
    /\ Running
    /\ TopFrame.i < Len(Calls(TopFrame))
    /\ Pending.fn = "chk"
    /\ frames' = Append(frames, Frame("chk", Pending.node))
    /\ UNCHANGED <<grammar, cache, query, result, nq, failed>>
    /\ UNCHANGED buildVars

\* can_be_empty returns: the cache entry is settled and the caller goes on
\* (or its assert_eq! fails).
ReturnCbe ==
    /\ Running
    /\ TopFrame.fn = "cbe"
    /\ TopFrame.i = Len(Calls(TopFrame))
    /\ LET r == can_be_empty_uncached(TopFrame.node, TopFrame.vals)
           rest == SubSeq(frames, 1, Len(frames) - 1)
           caller == rest[Len(rest)]
       IN  /\ cache' = CacheFinish(cache, TopFrame.node, r)
           /\ IF Calls(caller)[caller.i + 1].assert /\ r # Known(FALSE)
              THEN failed' = TRUE /\ frames' = rest
              ELSE frames' = Deliver(rest, <<r>>) /\ UNCHANGED failed
    /\ UNCHANGED <<grammar, query, result, nq>>
    /\ UNCHANGED buildVars

\* check_non_empty_opt returns.
ReturnChk ==
    /\ Running
    /\ TopFrame.fn = "chk"
    /\ TopFrame.i = Len(Calls(TopFrame))
    /\ frames' = Deliver(SubSeq(frames, 1, Len(frames) - 1), <<>>)
    /\ UNCHANGED <<grammar, cache, query, result, nq, failed>>
    /\ UNCHANGED buildVars

\* The top-level call has returned to its caller.
ReturnTop ==
    /\ Running
    /\ TopFrame.fn = "top"
    /\ TopFrame.i = 1
    /\ frames' = <<>>
    /\ result' = IF query.fn = "cbe" THEN TopFrame.vals[1] ELSE "None"
    /\ UNCHANGED <<grammar, cache, query, nq, failed>>
    /\ UNCHANGED buildVars

\* The whitespace rule of the insert_whitespace pass.
Whitespace == eat("w")

Query(f, n, w, r) == [fn |-> f, name |-> n, ws |-> w, node |-> r]

\* A caller starts can_be_empty or check_non_empty_opt on the rule of a
\* name of the grammar, or can_be_empty on that rule after insert_whitespace;
\* the cache is the one the earlier calls left.
Start(f, n, w) ==
    LET r == IF w THEN insert_whitespace(RWNF(grammar[n], NoFields), Whitespace).rule
             ELSE grammar[n]
    IN  /\ frames = <<>>
        /\ ~failed
        /\ nq < MaxQueries
        /\ nq' = nq + 1
        /\ query' = Query(f, n, w, r)
        /\ frames' = <<Frame("top", r)>>
        /\ UNCHANGED <<grammar, cache, result, failed>>
        /\ UNCHANGED buildVars

StartCanBeEmpty == \E n \in DOMAIN grammar : Start("cbe", n, FALSE)
StartCanBeEmptyWs == \E n \in DOMAIN grammar : Start("cbe", n, TRUE)
StartCheck == \E n \in DOMAIN grammar : Start("chk", n, FALSE)

\* The rules of the grammars: every rule over the leaves with at most n nodes.
NullLeaves == {Empty, Eat("e"), Eat("n"), Eat("u"), Call("R"), Call("S")}

RECURSIVE Rules(_)
Rules(n) ==
    IF n = 1 THEN NullLeaves
    ELSE LET small == Rules(n - 1)
             fits(a, b) == NodeCount(a) + NodeCount(b) <= n - 1
         IN  small
             \cup {Opt(r) : r \in small}
             \cup {RepeatMany(r, None) : r \in small}
             \cup {RepeatMore(r, None) : r \in small}
             \cup {Concat(p[1], p[2]) : p \in {q \in small \X small : fits(q[1], q[2])}}
             \cup {Or(p) : p \in {q \in small \X small : fits(q[1], q[2])}}

\* Grammars of two rules; S is a leaf, which may name a rule that is missing.
Grammars ==
    {[n \in {"R", "S"} |-> IF n = "R" THEN r ELSE s] :
        r \in Rules(MaxRuleNodes), s \in NullLeaves \cup {Call("U")}}

InitNull ==
    /\ grammar \in Grammars
    /\ cache = [n \in {} |-> Unknown]
    /\ frames = <<>>
    /\ query = Query("none", "", FALSE, Empty)
    /\ result = "None"
    /\ nq = 0
    /\ failed = FALSE
    /\ BuildIdle

NextNull ==
    \/ StartCanBeEmpty
    \/ StartCanBeEmptyWs
    \/ StartCheck
    \/ CallCached
    \/ CallVacant
    \/ CallCheck
    \/ ReturnCbe
    \/ ReturnChk
    \/ ReturnTop

SpecNull == InitNull /\ [][NextNull]_vars

\* The calls run to their end: a step of a call that is enabled is taken.
StepNull == CallCached \/ CallVacant \/ CallCheck \/ ReturnCbe \/ ReturnChk \/ ReturnTop
FairSpecNull == SpecNull /\ WF_vars(StepNull)

\* The sub-rules of a rule, the rule itself included.
RECURSIVE SubRules(_)
SubRules(rule) == {rule} \cup UNION {SubRules(rule.kids[i]) : i \in 1..Len(rule.kids)}

\* A caller starts can_be_empty on a node inside a rule of the grammar, as
\* check_non_empty_opt does on the inner rule of an Opt or the element of a
\* repetition; the cache is the one the earlier calls left.
StartCanBeEmptyNode ==
    \E n \in DOMAIN grammar : \E r \in SubRules(grammar[n]) \ {grammar[n]} :
        /\ frames = <<>>
        /\ ~failed
        /\ nq < MaxHistory
        /\ nq' = nq + 1
        /\ query' = Query("cbe", n, FALSE, r)
        /\ frames' = <<Frame("top", r)>>
        /\ UNCHANGED <<grammar, cache, result, failed>>
        /\ UNCHANGED buildVars

\* The analysis with top-level calls on inner nodes as well.
NextHist == NextNull \/ StartCanBeEmptyNode
SpecHist == InitNull /\ [][NextHist]_vars

(***************************************************************************)
(* Properties of the combinator layer (checked under SpecBuild).           *)
(***************************************************************************)

\* Whether `path` is a descent of `rule`: nothing left to descend, or the
\* next index names a child of the node and the rest descends that child.
RECURSIVE ValidPath(_, _)
ValidPath(rule, path) ==
    IF path = <<>> THEN TRUE
    ELSE CASE IsLeaf(rule) -> FALSE
           [] rule.tag = "Concat" ->
                path[1] \in {0, 1} /\ ValidPath(rule.kids[path[1] + 1], Tail(path))
           [] rule.tag = "Or" ->
                path[1] < Len(rule.kids) /\ ValidPath(rule.kids[path[1] + 1], Tail(path))
           [] rule.tag \in {"Opt", "RepeatMany", "RepeatMore"} ->
                path[1] = 0 /\ ValidPath(rule.kids[1], Tail(path))

AllPaths(v) == UNION {v.fields[n] : n \in DOMAIN v.fields}

\* C1: every path of every field of every value built by the combinators,
\* fold with the default hooks and insert_whitespace is a valid descent of
\* the value's rule tree (index 0/1 at a Concat, below the number of
\* alternatives at an Or, 0 at Opt/RepeatMany/RepeatMore, none at a leaf).
C1_PathsValid ==
    \A i \in 1..Len(stk) : \A p \in AllPaths(stk[i]) : ValidPath(stk[i].rule, p)

\* A value returned by insert_whitespace with a field two or more levels deep.
C1_Witness ==
    /\ last.op = "insert_whitespace"
    /\ ~IsPanic(last.out)
    /\ last.out.rule.tag = "Concat"
    /\ \E p \in AllPaths(last.out) : Len(p) >= 2

\* C5: for a field-less x, empty() + x and x + empty() return x itself
\* (same rule tree, same empty field mapping), so the tree does not grow.
C5_EmptyIdentity ==
    (last.op = "add" /\ ~IsPanic(last.out)) =>
        LET a == last.args[1]
            b == last.args[2]
        IN  /\ (a = empty /\ DOMAIN b.fields = {}) =>
                  (last.out = b /\ NodeCount(last.out.rule) = NodeCount(b.rule))
            /\ (b = empty /\ DOMAIN a.fields = {}) =>
                  (last.out = a /\ NodeCount(last.out.rule) = NodeCount(a.rule))

\* x + empty() was applied to a field-less x that is a Concat.
C5_Witness ==
    /\ last.op = "add"
    /\ ~IsPanic(last.out)
    /\ last.args[2] = empty
    /\ last.args[1].rule.tag = "Concat"
    /\ DOMAIN last.args[1].fields = {}

\* C6: the fields of a | b are the union over the alternatives: a's paths
\* prefixed with 0 and b's with 1 when a is not an Or; a's paths kept and b's
\* prefixed with list.len() when a is Or(list).  For eat(p).field("x") |
\* eat(q).field("x") the set of "x" is {[0],[1]} and it is refutable.
C6_OrFieldUnion ==
    (last.op = "bitor" /\ ~IsPanic(last.out)) =>
        LET a == last.args[1]
            b == last.args[2]
            aOr == a.rule.tag = "Or"
            fromA(n) == IF n \notin DOMAIN a.fields THEN {}
                        ELSE IF aOr THEN a.fields[n]
                        ELSE {<<0>> \o p : p \in a.fields[n]}
            base == IF aOr THEN Len(a.rule.kids) ELSE 1
            fromB(n) == IF n \notin DOMAIN b.fields THEN {}
                        ELSE {<<base>> \o p : p \in b.fields[n]}
        IN  /\ DOMAIN last.out.fields = (DOMAIN a.fields) \cup (DOMAIN b.fields)
            /\ \A n \in DOMAIN last.out.fields :
                  last.out.fields[n] = fromA(n) \cup fromB(n)
            /\ (a = field(eat("p"), "x") /\ b = field(eat("q"), "x")) =>
                  /\ last.out.fields["x"] = {<<0>>, <<1>>}
                  /\ field_pathset_is_refutable(last.out.rule, last.out.fields["x"])
                        = "true"

\* eat(p).field("x") | eat(q).field("x") was built.
C6_Witness ==
    /\ last.op = "bitor"
    /\ last.args = <<field(eat("p"), "x"), field(eat("q"), "x")>>

\* a | b was applied to an a that is an Or with a field, and a b with the
\* same field.
C6_WitnessOrList ==
    /\ last.op = "bitor"
    /\ last.args[1].rule.tag = "Or"
    /\ "x" \in DOMAIN last.args[1].fields
    /\ "x" \in DOMAIN last.args[2].fields

RECURSIVE AllNodes(_)
AllNodes(rule) == {rule} \cup UNION {AllNodes(rule.kids[i]) : i \in 1..Len(rule.kids)}

StackOrNodes == UNION {{r \in AllNodes(stk[i].rule) : r.tag = "Or"} : i \in 1..Len(stk)}

\* C7 as stated: every Or node has at least 2 alternatives and none of its
\* alternatives is an Or.
C7_OrFlat ==
    \A r \in StackOrNodes :
        /\ Len(r.kids) >= 2
        /\ \A i \in 1..Len(r.kids) : r.kids[i].tag # "Or"

\* C7 amended: every Or node has at least 2 alternatives and its first
\* alternative is not an Or (an Or on the left of | is absorbed); when | kept
\* an Or among the alternatives, that Or is the right operand, taken whole.
C7_OrLeftFlat ==
    /\ \A r \in StackOrNodes : Len(r.kids) >= 2 /\ r.kids[1].tag # "Or"
    /\ (last.op = "bitor" /\ ~IsPanic(last.out)) =>
          LET ks == last.out.rule.kids
          IN  /\ ks[Len(ks)] = last.args[2].rule
              /\ \A i \in 1..(Len(ks) - 1) :
                    ks[i].tag = "Or" => ks[i] \in AllNodes(last.args[1].rule)

\* a | b was applied to a b that is an Or, which the result keeps whole.
C7_Witness ==
    /\ last.op = "bitor"
    /\ last.args[2].rule.tag = "Or"
    /\ last.out.rule.kids[2] = last.args[2].rule

\* C8 as stated: field_pathset_is_refutable returns a boolean, without
\* failing, for every field of every value the combinators build.
C8_RefutableTotal ==
    (last.op = "refutable" /\ ~last.derived) => last.ans \in {"true", "false"}

\* C10 as stated: fold with the folder that overrides no hook returns a value
\* with the same rule tree and the same field mapping.
C10_FoldIdentity ==
    (last.op = "fold" /\ ~last.derived) =>
        /\ ~IsPanic(last.out)
        /\ last.out.rule = last.args[1].rule
        /\ last.out.fields = last.args[1].fields

\* The sub-rule a valid path leads to.
RECURSIVE Descend(_, _)
Descend(rule, path) ==
    IF path = <<>> THEN rule ELSE Descend(rule.kids[path[1] + 1], Tail(path))

IsProperPrefix(p, q) == Len(p) < Len(q) /\ SubSeq(q, 1, Len(p)) = p

\* The paths of the Empty operands of the Concat nodes of a rule.
RECURSIVE EmptyOperands(_)
EmptyOperands(rule) ==
    UNION {{<<i - 1>> \o p : p \in EmptyOperands(rule.kids[i])} : i \in 1..Len(rule.kids)}
    \cup (IF rule.tag = "Concat"
          THEN {<<i - 1>> : i \in {j \in 1..2 : rule.kids[j].tag = "Empty"}}
          ELSE {})

\* Every Empty operand of a Concat is the target of a field path, and no
\* field owns a path together with a proper extension of it.
FoldStable(v) ==
    /\ EmptyOperands(v.rule) \subseteq AllPaths(v)
    /\ \A n \in DOMAIN v.fields :
          \A p, q \in v.fields[n] : ~IsProperPrefix(p, q)

\* C10, the part that holds: fold with the folder that overrides no hook is the identity
\* on every value the combinators build in which every Empty operand of a
\* Concat still carries a field and no field owns both a path and a proper
\* extension of it.
C10_FoldIdentityStable ==
    (last.op = "fold" /\ ~last.derived) =>
        /\ ~IsPanic(last.out)
        /\ FoldStable(last.args[1]) => last.out = last.args[1]

\* fold was applied to such a value that has a Concat with an Empty operand
\* and a field two levels deep.
C10_Witness ==
    /\ last.op = "fold"
    /\ ~last.derived
    /\ ~IsPanic(last.out)
    /\ FoldStable(last.args[1])
    /\ EmptyOperands(last.args[1].rule) # {}
    /\ \E p \in AllPaths(last.args[1]) : Len(p) >= 2

(***************************************************************************)
(* Properties of can_be_empty and check_non_empty_opt (checked under       *)
(* SpecNull, and under FairSpecNull where a call has to come to its end).  *)
(***************************************************************************)
Idle == frames = <<>> /\ ~failed

\* Every Call of the grammar's rules names a rule of the grammar.
AllDefined ==
    \A n \in DOMAIN grammar : \A r \in AllNodes(grammar[n]) : Defined(r)

\* The first top-level call, can_be_empty on the rule `rule` of R, is over.
FirstOnR(rule) ==
    /\ Idle
    /\ nq = 1
    /\ query = Query("cbe", "R", FALSE, rule)
    /\ grammar["R"] = rule

\* C2: can_be_empty terminates on every grammar whose Call names are all
\* defined, recursive rules included; from an empty cache it returns
\* Known(true) for R = R | Empty and Known(false) for R = eat(n) + R, where
\* n does not match the empty input.
C2_Terminates ==
    /\ (Running /\ query.fn = "cbe" /\ AllDefined) ~> Idle
    /\ [](FirstOnR(Or(<<Call("R"), Empty>>)) => result = Known(TRUE))
    /\ [](FirstOnR(Concat(Eat("n"), Call("R"))) => result = Known(FALSE))

\* can_be_empty has returned for R = eat(n) + R.
C2_Witness == FirstOnR(Concat(Eat("n"), Call("R"))) /\ result = Known(FALSE)

\* can_be_empty has returned for R = R | Empty.
C2_WitnessOr == FirstOnR(Or(<<Call("R"), Empty>>)) /\ result = Known(TRUE)

Checking(rule) == query.fn = "chk" /\ query.node = rule
Passed == frames = <<>> /\ ~failed

\* C3 as stated: check_non_empty_opt on Opt(Opt(eat(p))) fails when p can
\* match empty and passes when p cannot.
C3_OptOptPasses ==
    /\ Checking(Opt(Opt(Eat("e")))) => ~Passed
    /\ Checking(Opt(Opt(Eat("n")))) => ~failed

\* C3 amended: check_non_empty_opt on Opt(Opt(eat(p))) fails whether or not p
\* can match empty (the inner Opt can); on Opt(eat(p)) it fails when p can
\* match empty and passes when p cannot.
C3_OptOptFails ==
    /\ [](\A pat \in {"e", "n"} : Checking(Opt(Opt(Eat(pat)))) => ~Passed)
    /\ [](Checking(Opt(Eat("e"))) => ~Passed)
    /\ [](Checking(Opt(Eat("n"))) => ~failed)
    /\ \A pat \in {"e", "n"} : Checking(Opt(Opt(Eat(pat)))) ~> failed
    /\ Checking(Opt(Eat("e"))) ~> failed
    /\ Checking(Opt(Eat("n"))) ~> Passed

\* check_non_empty_opt has failed on Opt(Opt(eat(n))).
C3_Witness == Checking(Opt(Opt(Eat("n")))) /\ failed

\* C4 as stated: insert_whitespace(W) of RepeatMany(eat(n), None) holds
\* RepeatMore(eat(n), Some((W, Simple))) and can still match the empty input:
\* can_be_empty returns Known(true) for it, as for the rule it came from.
C4_StillZeroOrMore ==
    (Idle /\ query.fn = "cbe" /\ query.ws
        /\ grammar[query.name] = RepeatMany(Eat("n"), None)) =>
        /\ RepeatMore(Eat("n"), Some(<<Whitespace.rule, "Simple">>))
              \in AllNodes(query.node)
        /\ result = Known(TRUE)

CbeNodes == {frames[i].node : i \in {j \in 1..Len(frames) : frames[j].fn = "cbe"}}

\* C9: the cache holds Unknown for a node only while can_be_empty is running
\* on it; that entry is still there, still Unknown, until the node's
\* computation ends; once a top-level call has returned no entry is Unknown,
\* and a node whose result was Unknown has no entry.
C9_UnknownOnlyInProgress ==
    ~failed =>
        /\ \A n \in DOMAIN cache : cache[n] = Unknown => n \in CbeNodes
        /\ \A n \in CbeNodes : n \in DOMAIN cache /\ cache[n] = Unknown
        /\ frames = <<>> => \A n \in DOMAIN cache : cache[n] # Unknown
        /\ (frames = <<>> /\ query.fn = "cbe" /\ result = Unknown) =>
              query.node \notin DOMAIN cache

\* A top-level call returned Unknown and left Known entries in the cache.
C9_Witness ==
    /\ Idle
    /\ query.fn = "cbe"
    /\ result = Unknown
    /\ DOMAIN cache # {}

\* What can_be_empty returns for `node` on a cache that is empty.
Fresh(node) == can_be_empty(node, [n \in {} |-> Unknown]).val

\* A top-level can_be_empty call has returned.
Answered == Idle /\ query.fn = "cbe"

\* C11: the answer of a top-level can_be_empty call does not depend on the
\* calls made before it on the same cache: on a grammar whose Call names are
\* all defined it is the value a call on an empty cache returns; a Known
\* value that was returned is in the cache, a call that ends with an entry
\* for its node has returned that entry, and a Known entry of the cache
\* never changes or disappears (so every later call on its node returns it).
C11_HistoryIndependent ==
    /\ []((Answered /\ AllDefined) => result = Fresh(query.node))
    /\ []((Answered /\ result # Unknown) =>
            query.node \in DOMAIN cache /\ cache[query.node] = result)
    /\ []((Answered /\ query.node \in DOMAIN cache) =>
            result = cache[query.node])
    /\ [][\A n \in DOMAIN cache : cache[n] # Unknown =>
            n \in DOMAIN cache' /\ cache'[n] = cache[n]]_vars

\* The last of MaxHistory top-level calls on one cache, made on an inner
\* node that holds a Call, has returned a Known value, and the cache holds
\* entries for several nodes.
C11_Witness ==
    /\ Answered
    /\ AllDefined
    /\ nq = MaxHistory
    /\ query.node # grammar[query.name]
    /\ \E r \in SubRules(query.node) : r.tag = "Call"
    /\ result # Unknown
    /\ Cardinality(DOMAIN cache) > 1

====
